---- MODULE Spec2Model ----
(***************************************************************************)
(* A model of twyla.kubedeploy (src/twyla/kubedeploy/__init__.py): the     *)
(* tag codec (make_tag, tag_components), the registry probe                *)
(* (docker_image_exists), the manifest mutation                            *)
(* (fill_deployment_definition), the version resolution (head_of) and the  *)
(* deploy command.                                                         *)
(*                                                                         *)
(* A Python str is a sequence of one-character strings, so that            *)
(* formatting and splitting are computed character by character.           *)
(***************************************************************************)
EXTENDS Naturals, Sequences, FiniteSets, TLC

\* ------------------------------------------------------------- bounds
\* Longest registry, image name and version string of the tag codec runs.
MaxLen == 2
\* Longest decoded credential text of the registry probe runs.
MaxCredLen == 3
\* Most remotes configured in the working copy.
MaxRemotes == 2
\* Most remote tracking refs in the working copy's ref store.
MaxRefs == 2
\* Most container specs in a manifest.
MaxContainers == 2

\* ---------------------------------------------------- program constants
\* rev_parse(..., short=8)
ShortLen == 8
\* deployment.spec.revisionHistoryLimit = 5
HistoryLimit == 5

\* ------------------------------------------------------------- values
\* Python's None. No str equals it: a str holds one-character elements.
None == <<"<None>">>
\* repo.active_branch raises TypeError (detached HEAD, unfinished rebase).
Detached == <<"<TypeError>">>

\* All strings over alphabet cs of length at most n.
StrsUpTo(cs, n) == UNION {[1..k -> cs] : k \in 0..n}

\* str.find: the index of the first sep in s, 0 when there is none.
Find(s, sep) ==
  IF \E i \in 1..Len(s) : s[i] = sep
  THEN CHOOSE i \in 1..Len(s) : s[i] = sep /\ \A j \in 1..(i-1) : s[j] # sep
  ELSE 0

\* The mutant of Split1: str.rsplit(sep, 1), splitting at the last sep.
RSplit1(s, sep) ==
  IF \E i \in 1..Len(s) : s[i] = sep
  THEN LET i == CHOOSE k \in 1..Len(s) :
                  s[k] = sep /\ \A j \in (k+1)..Len(s) : s[j] # sep
       IN <<SubSeq(s, 1, i-1), SubSeq(s, i+1, Len(s))>>
  ELSE <<s>>

\* str.split(sep, 1): at most one split, at the first sep.
Split1(s, sep) ==
  LET i == Find(s, sep)
  IN IF i = 0 THEN <<s>> ELSE <<SubSeq(s, 1, i-1), SubSeq(s, i+1, Len(s))>>

\* prefix.startswith
IsPrefix(p, s) == Len(p) <= Len(s) /\ SubSeq(s, 1, Len(p)) = p

\* ---------------------------------------------------------- tag codec
\* "{}/{}:{}".format(registry, name, version)
make_tag(registry, name, version) ==
  registry \o <<"/">> \o name \o <<":">> \o version

\* tag_components: ok is FALSE where the tuple unpacking raises ValueError.
tag_components(t) ==
  LET p == Split1(t, "/")
  IN IF Len(p) # 2
     THEN [ok |-> FALSE, domain |-> None, repository |-> None, version |-> None]
     ELSE LET q == Split1(p[2], ":")
          IN IF Len(q) # 2
             THEN [ok |-> FALSE, domain |-> None, repository |-> None,
                   version |-> None]
             ELSE [ok |-> TRUE, domain |-> p[1], repository |-> q[1],
                   version |-> q[2]]

\* ------------------------------------------------------ working copy
\* Full commit IDs of the object database. CA and CB share their first
\* eight characters.
CA == <<"a","b","c","1","2","3","4","5","0","0">>
CB == <<"a","b","c","1","2","3","4","5","9","9">>
CD == <<"d","e","f","6","7","8","9","0","1","1">>
Objects == {CA, CB, CD}
\* The commits that heads and remote tracking refs point at.
Commits == {CA, CD}

RemoteNames == {<<"o">>, <<"u">>, <<"o","/","x">>}
BranchNames == {<<"m">>, <<"x","/","m">>}
\* refs/remotes/<remote>/<branch>, named "<remote>/<branch>" by ref.name.
RefNames == {r \o <<"/">> \o b : r \in RemoteNames, b \in BranchNames}
\* The ref store: ref name -> full commit ID.
RefStores ==
  UNION {[D -> Commits] : D \in {E \in SUBSET RefNames : Cardinality(E) <= MaxRefs}}
\* repo.remotes: remote names are unique.
RemoteLists ==
  {s \in UNION {[1..k -> RemoteNames] : k \in 0..MaxRemotes} :
     \A i, j \in 1..Len(s) : i # j => s[i] # s[j]}

\* The order refs are listed in: by name.
CharRank(c) == CHOOSE i \in 1..5 : <<"/", "m", "o", "u", "x">>[i] = c
RECURSIVE NameLess(_, _)
NameLess(s, t) ==
  IF s = <<>> THEN t # <<>>
  ELSE IF t = <<>> THEN FALSE
  ELSE IF Head(s) = Head(t) THEN NameLess(Tail(s), Tail(t))
  ELSE CharRank(Head(s)) < CharRank(Head(t))
RECURSIVE SortedNames(_)
SortedNames(S) ==
  IF S = {} THEN <<>>
  ELSE LET m == CHOOSE x \in S : \A y \in S \ {x} : NameLess(x, y)
       IN <<m>> \o SortedNames(S \ {m})

\* remote.refs: the refs of the store under refs/remotes/<remote>/.
remote_refs_of(store, remote) ==
  SortedNames({n \in DOMAIN store : IsPrefix(remote \o <<"/">>, n)})

\* The mutant of ref_matches: the ref name only ends with the branch.
ref_matches_suffix(ref_name, remote, br) ==
  /\ Len(br) <= Len(ref_name)
  /\ SubSeq(ref_name, Len(ref_name) - Len(br) + 1, Len(ref_name)) = br

\* ref.name == '{remote}/{branch}'.format(remote=remote.name, branch=branch)
ref_matches(ref_name, remote, br) == ref_name = remote \o <<"/">> \o br

\* repo.git.rev_parse(commit, short=8): the shortest prefix of at least
\* eight characters that names no other object.
rev_parse_short(c) ==
  LET Unique(k) == \A o \in Objects \ {c} : SubSeq(o, 1, k) # SubSeq(c, 1, k)
      n == CHOOSE k \in ShortLen..Len(c) :
             Unique(k) /\ \A j \in ShortLen..(k-1) : ~Unique(j)
  IN SubSeq(c, 1, n)

\* The mutant of keys_ne: the comparison inverted, len(seen) == n.
keys_eq_len(seen, n) == Cardinality(seen) = n

\* seen.keys() != 1: a dict_keys view never equals an int, whatever it
\* holds, so the comparison is always True.
keys_ne(seen, n) == TRUE

\* The results of a call: what it returned, or how it ended.
Return(v) == [kind |-> "return", value |-> v]
Exit(msg) == [kind |-> "exit", value |-> <<msg>>]
Raise(exc) == [kind |-> "raise", value |-> <<exc>>]
NoResult == [kind |-> "none", value |-> None]

VARIABLES
  \* the working copy
  remotes, refs, active_branch, head_commit,
  \* head_of: the arguments as passed, the locals, the position
  head_args, pc, branch, remote_idx, remote_refs, head_result,
  \* head_of, history: the remotes fetched, the (remote, ref name) pairs
  \* the inner loop visited, and those it appended
  fetched, enumerated, selected,
  \* tag codec run
  tpc, t_in, t_tag, t_out,
  \* ~/.docker/config.json and the registries' repositories
  docker_config, repositories,
  \* docker_image_exists: the position, the argument, the registry session
  \* it opened, its result
  ppc, p_tag, session, exists_result,
  \* fill_deployment_definition: the position, the objects, the arguments,
  \* the manifest as passed, the result
  fpc, heap, f_deployment, f_tag, f_before, fill_result,
  \* deploy: the position, the options, the file .kubedeploy, the locals,
  \* the external steps taken so far, the way the command ended
  dpc, deploy_args, options, registry, version, tag, trace, deploy_result

repoVars == <<remotes, refs, active_branch, head_commit>>
headVars == <<head_args, pc, branch, remote_idx, remote_refs, head_result,
              fetched, enumerated, selected>>
tagVars == <<tpc, t_in, t_tag, t_out>>
worldVars == <<docker_config, repositories>>
probeVars == <<ppc, p_tag, session, exists_result>>
fillVars == <<fpc, heap, f_deployment, f_tag, f_before, fill_result>>
deployVars == <<dpc, deploy_args, options, registry, version, tag, trace,
                deploy_result>>
vars == <<repoVars, headVars, tagVars, worldVars, probeVars, fillVars,
          deployVars>>

\* --------------------------------------------------------------- head_of
\* No call of head_of is under way.
HeadIdle ==
  /\ head_args = [branch |-> None, local |-> FALSE]
  /\ pc = "idle" /\ branch = None /\ remote_idx = 0 /\ remote_refs = <<>>
  /\ head_result = NoResult
  /\ fetched = <<>> /\ enumerated = {} /\ selected = {}

\* A working copy: its remotes, its remote tracking refs, its HEAD.
RepoInit ==
  /\ remotes \in RemoteLists
  /\ refs \in RefStores
  /\ active_branch \in {Detached, <<"m">>}
  /\ head_commit \in Commits

\* A working copy no run reads.
RepoIdle ==
  /\ remotes = <<>> /\ refs = <<>> /\ active_branch = <<"m">>
  /\ head_commit = CA

\* head_of(working_directory, br, local=loc) is entered.
HeadEnter(br, loc) ==
  /\ head_args' = [branch |-> br, local |-> loc]
  /\ pc' = "branch" /\ branch' = br /\ remote_idx' = 0 /\ remote_refs' = <<>>
  /\ head_result' = NoResult
  /\ fetched' = <<>> /\ enumerated' = {} /\ selected' = {}

\* Lines 129-137: no branch given, so the active branch is taken, and the
\* call exits where there is none.
HeadOfBranch ==
  /\ pc = "branch"
  /\ IF branch = None /\ active_branch = Detached
     THEN /\ head_result' = Exit("inconclusive")
          /\ pc' = "done"
          /\ UNCHANGED branch
     ELSE /\ branch' = IF branch = None THEN active_branch ELSE branch
          /\ pc' = "local"
          /\ UNCHANGED head_result
  /\ UNCHANGED <<repoVars, head_args, remote_idx, remote_refs, fetched,
                 enumerated, selected>>
  /\ UNCHANGED <<tagVars, worldVars, probeVars, fillVars, deployVars>>

\* Lines 139-148: the local HEAD is returned, or the loop over the remotes
\* starts.
HeadOfLocal ==
  /\ pc = "local"
  /\ IF head_args.local
     THEN /\ head_result' = Return(rev_parse_short(head_commit))
          /\ pc' = "done"
          /\ UNCHANGED <<remote_idx, remote_refs>>
     ELSE /\ remote_idx' = 1
          /\ remote_refs' = <<>>
          /\ pc' = "remotes"
          /\ UNCHANGED head_result
  /\ UNCHANGED <<repoVars, head_args, branch, fetched, enumerated, selected>>
  /\ UNCHANGED <<tagVars, worldVars, probeVars, fillVars, deployVars>>


\* What remote.fetch() may leave in the ref store: the refs under the
\* remote are updated or created, no ref is deleted, the others stay.
FetchResults(remote) ==
  {f \in RefStores :
     /\ DOMAIN refs \subseteq DOMAIN f
     /\ \A n \in DOMAIN f :
          ~IsPrefix(remote \o <<"/">>, n) => (n \in DOMAIN refs /\ f[n] = refs[n])}

\* The refs of listing appended to acc where they match, in order
\* (lines 151-166).
RECURSIVE AppendMatching(_, _, _, _)
AppendMatching(acc, listing, remote, br) ==
  IF listing = <<>> THEN acc
  ELSE AppendMatching(
         IF ref_matches(Head(listing), remote, br)
         THEN Append(acc, Head(listing)) ELSE acc,
         Tail(listing), remote, br)

\* Line 150 raises: the fetch of the next remote fails.
HeadOfFetchFails ==
  /\ pc = "remotes" /\ remote_idx <= Len(remotes)
  /\ head_result' = Raise("GitCommandError")
  /\ pc' = "done"
  /\ UNCHANGED <<repoVars, head_args, branch, remote_idx, remote_refs,
                 fetched, enumerated, selected>>
  /\ UNCHANGED <<tagVars, worldVars, probeVars, fillVars, deployVars>>

\* Lines 149-166, one iteration: the next remote is fetched and its refs
\* are searched for '<remote>/<branch>'.
HeadOfRemote ==
  /\ pc = "remotes" /\ remote_idx <= Len(remotes)
  /\ LET remote == remotes[remote_idx]
     IN \E f \in FetchResults(remote) :
          LET listing == remote_refs_of(f, remote)
              found == AppendMatching(<<>>, listing, remote, branch)
          IN /\ refs' = f
             /\ fetched' = Append(fetched, remote)
             /\ remote_refs' = remote_refs \o found
             /\ enumerated' = enumerated \cup
                  {<<remote, listing[i]>> : i \in 1..Len(listing)}
             /\ selected' = selected \cup
                  {<<remote, found[i]>> : i \in 1..Len(found)}
  /\ remote_idx' = remote_idx + 1
  /\ UNCHANGED <<remotes, active_branch, head_commit, head_args, pc, branch,
                 head_result>>
  /\ UNCHANGED <<tagVars, worldVars, probeVars, fillVars, deployVars>>

\* Lines 169-172: no remote tracking branch was found.
HeadOfCheckFound ==
  /\ pc = "remotes" /\ remote_idx > Len(remotes)
  /\ IF Len(remote_refs) < 1
     THEN /\ head_result' = Exit("no remote tracking branch")
          /\ pc' = "done"
     ELSE /\ pc' = "compare"
          /\ UNCHANGED head_result
  /\ UNCHANGED <<repoVars, head_args, branch, remote_idx, remote_refs,
                 fetched, enumerated, selected>>
  /\ UNCHANGED <<tagVars, worldVars, probeVars, fillVars, deployVars>>

\* Lines 176-184: with more than one ref found, their commit IDs are
\* collected and compared. rev_parse(ref.name) is the ref's full commit ID.
HeadOfCompare ==
  /\ pc = "compare"
  /\ LET seen == {refs[remote_refs[i]] : i \in 1..Len(remote_refs)}
     IN IF Len(remote_refs) > 1 /\ keys_ne(seen, 1)
        THEN /\ head_result' = Exit("different commit IDs")
             /\ pc' = "done"
        ELSE /\ pc' = "return"
             /\ UNCHANGED head_result
  /\ UNCHANGED <<repoVars, head_args, branch, remote_idx, remote_refs,
                 fetched, enumerated, selected>>
  /\ UNCHANGED <<tagVars, worldVars, probeVars, fillVars, deployVars>>

\* Line 188: the short form of the first found ref's commit is returned.
HeadOfReturn ==
  /\ pc = "return"
  /\ head_result' = Return(rev_parse_short(refs[remote_refs[1]]))
  /\ pc' = "done"
  /\ UNCHANGED <<repoVars, head_args, branch, remote_idx, remote_refs,
                 fetched, enumerated, selected>>
  /\ UNCHANGED <<tagVars, worldVars, probeVars, fillVars, deployVars>>

\* ------------------------------------------------------- tag codec runs
TagChars == {"a", "/", ":"}

NotParsed ==
  [ok |-> FALSE, domain |-> None, repository |-> None, version |-> None]

TagIdle ==
  /\ tpc = "idle"
  /\ t_in = [registry |-> None, name |-> None, version |-> None]
  /\ t_tag = None
  /\ t_out = NotParsed

TagInit ==
  /\ tpc = "make_tag"
  /\ t_in \in [registry : StrsUpTo(TagChars, MaxLen),
               name : StrsUpTo(TagChars, MaxLen),
               version : StrsUpTo(TagChars, MaxLen)]
  /\ t_tag = None
  /\ t_out = NotParsed

MakeTag ==
  /\ tpc = "make_tag"
  /\ t_tag' = make_tag(t_in.registry, t_in.name, t_in.version)
  /\ tpc' = "tag_components"
  /\ UNCHANGED <<t_in, t_out>>
  /\ UNCHANGED <<repoVars, headVars, worldVars, probeVars, fillVars,
                 deployVars>>

TagComponents ==
  /\ tpc = "tag_components"
  /\ t_out' = tag_components(t_tag)
  /\ tpc' = "done"
  /\ UNCHANGED <<t_in, t_tag>>
  /\ UNCHANGED <<repoVars, headVars, worldVars, probeVars, fillVars,
                 deployVars>>

\* -------------------------------------------------- docker_image_exists
\* Python's True and False as results.
PyBool(b) == IF b THEN <<"True">> ELSE <<"False">>

\* No registry session was opened.
NoSession ==
  [host |-> None, username |-> None, password |-> None, accepted |-> FALSE]

\* "https://{}".format(domain_part)
registry_url(domain) == <<"h","t","t","p","s",":","/","/">> \o domain

\* str.split(sep): a split at every sep.
RECURSIVE SplitAll(_, _)
SplitAll(s, sep) ==
  LET i == Find(s, sep)
  IN IF i = 0 THEN <<s>>
     ELSE <<SubSeq(s, 1, i-1)>> \o SplitAll(SubSeq(s, i+1, Len(s)), sep)

\* The mutant of split_credentials: credentials.split(':'), which gives
\* three parts or more to unpack where the text holds two ':' or more.
split_credentials_all(credentials) == SplitAll(credentials, ":")

\* Line 101: credentials.split(':', 1)
split_credentials(credentials) == Split1(credentials, ":")

\* The mutant of auth_entry: the entry of another domain where there is one.
auth_entry_other(auths, domain) ==
  IF \E d \in DOMAIN auths : d # domain
  THEN auths[CHOOSE d \in DOMAIN auths : d # domain]
  ELSE auths[domain]

\* Line 97: docker_auth_data['auths'][domain_part]
auth_entry(auths, domain) == auths[domain]

\* docker_image_exists(tag) on the credential file config and the
\* registries repos; accepted says whether the registry accepts the login.
\* A stored blob is [valid, text]: what b64decode(...).decode('utf8')
\* gives, or that it raises.
docker_image_exists(t, config, repos, accepted) ==
  LET c == tag_components(t)
      Failed(exc) == [result |-> Raise(exc), session |-> NoSession]
  IN IF config.kind # "ok" THEN Failed("FileNotFoundError")
     ELSE IF ~c.ok THEN Failed("ValueError")
     ELSE IF c.domain \notin DOMAIN config.auths THEN Failed("KeyError")
     ELSE LET blob == auth_entry(config.auths, c.domain)
          IN IF ~blob.valid THEN Failed("binascii.Error")
             ELSE LET parts == split_credentials(blob.text)
                  IN IF Len(parts) # 2 THEN Failed("ValueError")
                     ELSE LET opened == [host |-> registry_url(c.domain),
                                         username |-> parts[1],
                                         password |-> parts[2],
                                         accepted |-> accepted]
                          IN IF ~accepted \/ <<c.domain, c.repository>> \notin DOMAIN repos
                             THEN [result |-> Raise("HTTPError"), session |-> opened]
                             ELSE [result |->
                                     Return(PyBool(c.version \in
                                              repos[<<c.domain, c.repository>>])),
                                   session |-> opened]

ProbeIdle ==
  /\ ppc = "idle" /\ p_tag = None /\ session = NoSession
  /\ exists_result = NoResult

WorldIdle ==
  /\ docker_config = [kind |-> "missing", auths |-> <<>>]
  /\ repositories = <<>>

ProbeDomains == {<<"h">>, <<"h",":","5">>}
ProbeRepos == {<<"r">>, <<"n","/","r">>}
ProbeVersions == {<<"v">>, <<"w">>}
\* The tags probed: well-formed ones, one without "/", one without ":".
ProbeTags ==
  {make_tag(d, r, v) : d \in ProbeDomains, r \in ProbeRepos, v \in ProbeVersions}
    \cup {<<"h">>, <<"h","/","r">>}
\* The stored blobs: one that does not decode, and the encodings of texts.
Blobs ==
  {[valid |-> FALSE, text |-> None]}
    \cup {[valid |-> TRUE, text |-> x] : x \in StrsUpTo({"a", ":"}, MaxCredLen)}
OtherBlob == [valid |-> TRUE, text |-> <<":","a">>]
\* The credential files: none, or auths with an entry for <<"h">>, for
\* <<"h",":","5">>, for both or for neither.
DockerConfigs ==
  {[kind |-> "missing", auths |-> <<>>]}
    \cup {[kind |-> "ok", auths |-> a] :
            a \in {<<>>, (<<"h",":","5">> :> OtherBlob)}
                  \cup {(<<"h">> :> b) : b \in Blobs}
                  \cup {(<<"h">> :> b) @@ (<<"h",":","5">> :> OtherBlob) : b \in Blobs}}
\* The registries: each repository is absent or holds one of these tag sets.
TagSets == {{}, {<<"v">>}, {<<"v">>, <<"w">>}}
Registries ==
  UNION {[D -> TagSets] : D \in SUBSET (ProbeDomains \X ProbeRepos)}

ProbeInit ==
  /\ ppc = "call"
  /\ p_tag \in ProbeTags
  /\ docker_config \in DockerConfigs
  /\ repositories \in Registries
  /\ session = NoSession
  /\ exists_result = NoResult

DockerImageExists ==
  /\ ppc = "call"
  /\ \E accepted \in BOOLEAN :
       LET r == docker_image_exists(p_tag, docker_config, repositories, accepted)
       IN /\ exists_result' = r.result
          /\ session' = r.session
  /\ ppc' = "done"
  /\ UNCHANGED <<p_tag, worldVars>>
  /\ UNCHANGED <<repoVars, headVars, tagVars, fillVars, deployVars>>

\* ------------------------------------------- fill_deployment_definition
\* deployment_name = '???'
deployment_name == <<"?","?","?">>

\* The mutant of fill_deployment_definition: the container list is looked
\* at first, and nothing is set where it is empty.
fill_checked_first(h, d, t) ==
  IF h[d].containers = <<>>
  THEN [heap |-> h, kind |-> "raise", ref |-> 0]
  ELSE [heap |-> [h EXCEPT ![d].name = deployment_name,
                           ![d].labels = [k \in DOMAIN h[d].labels \cup {"name"} |->
                                            IF k = "name" THEN deployment_name
                                            ELSE h[d].labels[k]],
                           ![d].revisionHistoryLimit = HistoryLimit,
                           ![d].containers[1].image = t],
        kind |-> "return", ref |-> d]

\* The mutant of fill_deployment_definition: every container's image is set.
fill_all_containers(h, d, t) ==
  LET named == [h EXCEPT ![d].name = deployment_name,
                         ![d].labels = [k \in DOMAIN h[d].labels \cup {"name"} |->
                                          IF k = "name" THEN deployment_name
                                          ELSE h[d].labels[k]],
                         ![d].revisionHistoryLimit = HistoryLimit]
  IN IF h[d].containers = <<>>
     THEN [heap |-> named, kind |-> "raise", ref |-> 0]
     ELSE [heap |-> [named EXCEPT ![d].containers =
                       [i \in 1..Len(h[d].containers) |->
                          [h[d].containers[i] EXCEPT !.image = t]]],
           kind |-> "return", ref |-> d]

\* fill_deployment_definition(deployment, tag) on the objects h, deployment
\* being the object d: the objects after the call, and the object returned
\* or that containers[0] raised IndexError. Lines 116-118 are done before
\* line 122 is reached.
fill_deployment_definition(h, d, t) ==
  LET named == [h EXCEPT ![d].name = deployment_name,
                         ![d].labels = [k \in DOMAIN h[d].labels \cup {"name"} |->
                                          IF k = "name" THEN deployment_name
                                          ELSE h[d].labels[k]],
                         ![d].revisionHistoryLimit = HistoryLimit]
  IN IF h[d].containers = <<>>
     THEN [heap |-> named, kind |-> "raise", ref |-> 0]
     ELSE [heap |-> [named EXCEPT ![d].containers[1].image = t],
           kind |-> "return", ref |-> d]

FillIdle ==
  /\ fpc = "idle" /\ heap = <<>> /\ f_deployment = 0 /\ f_tag = None
  /\ f_before = <<>> /\ fill_result = [kind |-> "none", ref |-> 0]

LabelValues == {<<"a">>, deployment_name}
\* The label maps: "name" and "app", each present or not.
LabelMaps == UNION {[D -> LabelValues] : D \in SUBSET {"name", "app"}}
Images == {<<"h","/","r",":","v">>, <<"h","/","r",":","w">>}
ContainerSpecs == [name : {<<"c">>, <<"s">>}, image : Images]
Manifests ==
  [name : LabelValues,
   labels : LabelMaps,
   revisionHistoryLimit : {2, HistoryLimit},
   containers : UNION {[1..k -> ContainerSpecs] : k \in 0..MaxContainers}]

FillInit ==
  /\ fpc = "call"
  /\ f_deployment = 1
  /\ \E m \in Manifests : heap = <<m>> /\ f_before = m
  /\ f_tag \in Images
  /\ fill_result = [kind |-> "none", ref |-> 0]

FillDeploymentDefinition ==
  /\ fpc = "call"
  /\ LET r == fill_deployment_definition(heap, f_deployment, f_tag)
     IN /\ heap' = r.heap
        /\ fill_result' = [kind |-> r.kind, ref |-> r.ref]
  /\ fpc' = "done"
  /\ UNCHANGED <<f_deployment, f_tag, f_before>>
  /\ UNCHANGED <<repoVars, headVars, tagVars, worldVars, probeVars,
                 deployVars>>

\* ---------------------------------------------------------------- deploy
DeployIdle ==
  /\ dpc = "idle"
  /\ deploy_args = [registry |-> None, image |-> None, branch |-> None,
                    version |-> None, local |-> FALSE, dry |-> FALSE]
  /\ options = [registry |-> None]
  /\ registry = None /\ version = None /\ tag = None
  /\ trace = <<>>
  /\ deploy_result = NoResult

\* The versions a registry may hold: a given one and the short commit IDs.
DeployVersions == {<<"v">>} \cup {rev_parse_short(c) : c \in Commits}
DeployDomains == {<<"h">>, <<"h",":","5">>}
GoodBlob == [valid |-> TRUE, text |-> <<"a",":","a">>]

\* The command line, the file .kubedeploy, the credential file, the
\* registries and the working copy of a run. What the run does not read
\* (the working copy where a version is given, the remotes where local is
\* set, all of it where no registry is known) is left at one value.
DeployInit ==
  /\ dpc = "options"
  /\ deploy_args \in [registry : {None, <<"h">>}, image : {<<"i">>},
                      branch : BranchNames, version : {None, <<"v">>},
                      local : BOOLEAN, dry : BOOLEAN]
  /\ options \in {[registry |-> None], [registry |-> <<"h",":","5">>]}
  /\ deploy_args.registry # None => options.registry = None
  /\ registry = None /\ version = None /\ tag = None
  /\ trace = <<>>
  /\ deploy_result = NoResult
  /\ LET unread == deploy_args.registry = None /\ options.registry = None
         good == [kind |-> "ok", auths |-> [d \in DeployDomains |-> GoodBlob]]
     IN /\ IF unread THEN WorldIdle
           ELSE \/ /\ docker_config = [kind |-> "missing", auths |-> <<>>]
                   /\ repositories = <<>>
                \/ /\ docker_config = good
                   /\ repositories \in
                        {<<>>} \cup {[k \in DeployDomains \X {<<"i">>} |-> vs] :
                                       vs \in {{}, DeployVersions}}
        /\ IF unread \/ deploy_args.version # None THEN RepoIdle
           ELSE IF deploy_args.local
           THEN /\ remotes = <<>> /\ refs = <<>>
                /\ active_branch \in {Detached, <<"m">>}
                /\ head_commit \in Commits
           ELSE /\ remotes \in RemoteLists /\ refs \in RefStores
                /\ active_branch = <<"m">> /\ head_commit = CA

\* An external step of the run, on a tag, with how it ended.
Step(op, t, result) == [op |-> op, tag |-> t, result |-> result]

\* Lines 227-230: the registry is the option given, else the one of
\* .kubedeploy, and options['registry'] raises KeyError where it has none.
DeployOptions ==
  /\ dpc = "options"
  /\ IF deploy_args.registry = None /\ options.registry = None
     THEN /\ deploy_result' = Raise("KeyError")
          /\ dpc' = "done"
          /\ UNCHANGED registry
     ELSE /\ registry' = IF deploy_args.registry = None
                         THEN options.registry ELSE deploy_args.registry
          /\ dpc' = "version"
          /\ UNCHANGED deploy_result
  /\ UNCHANGED <<deploy_args, options, version, tag, trace>>
  /\ UNCHANGED <<repoVars, headVars, tagVars, worldVars, probeVars, fillVars>>

\* Lines 231-235: with no version given head_of is called, with no branch
\* where local is set.
DeployVersion ==
  /\ dpc = "version"
  /\ IF deploy_args.version = None
     THEN /\ HeadEnter(IF deploy_args.local THEN None ELSE deploy_args.branch,
                       deploy_args.local)
          /\ dpc' = "head_of"
          /\ UNCHANGED version
     ELSE /\ version' = deploy_args.version
          /\ dpc' = "tag"
          /\ UNCHANGED headVars
  /\ UNCHANGED <<deploy_args, options, registry, tag, trace, deploy_result>>
  /\ UNCHANGED <<repoVars, tagVars, worldVars, probeVars, fillVars>>

\* Line 235: head_of returns the version, or ends the run.
DeployHeadOfDone ==
  /\ dpc = "head_of" /\ pc = "done"
  /\ IF head_result.kind = "return"
     THEN /\ version' = head_result.value
          /\ dpc' = "tag"
          /\ UNCHANGED deploy_result
     ELSE /\ deploy_result' = head_result
          /\ dpc' = "done"
          /\ UNCHANGED version
  /\ UNCHANGED <<deploy_args, options, registry, tag, trace>>
  /\ UNCHANGED <<repoVars, headVars, tagVars, worldVars, probeVars, fillVars>>

\* Lines 236-241: the tag is made.
DeployMakeTag ==
  /\ dpc = "tag"
  /\ tag' = make_tag(registry, deploy_args.image, version)
  /\ dpc' = IF deploy_args.local /\ ~deploy_args.dry THEN "download" ELSE "probe"
  /\ UNCHANGED <<deploy_args, options, registry, version, trace, deploy_result>>
  /\ UNCHANGED <<repoVars, headVars, tagVars, worldVars, probeVars, fillVars>>

\* An external step that changes nothing modelled: it returns or raises.
External(op, next) ==
  /\ \E ok \in BOOLEAN :
       /\ trace' = Append(trace, Step(op, tag, IF ok THEN "ok" ELSE "raise"))
       /\ IF ok
          THEN dpc' = next /\ UNCHANGED deploy_result
          ELSE dpc' = "done" /\ deploy_result' = Raise("Exception")
  /\ UNCHANGED <<deploy_args, options, registry, version, tag>>
  /\ UNCHANGED <<repoVars, headVars, tagVars, worldVars, probeVars, fillVars>>

\* Line 242: download_requirements()
DeployDownload ==
  /\ dpc = "download"
  /\ External("download", "build")

\* Line 243: docker_image('build', tag)
DeployBuild ==
  /\ dpc = "build"
  /\ External("build", "push")

\* Line 244: docker_image('push', tag). The push raises, or returns with
\* the image in the registry, or returns without (images.push reports a
\* failed push in its output only).
DeployPush ==
  /\ dpc = "push"
  /\ \E how \in {"raise", "lost", "ok"} :
       /\ trace' = Append(trace, Step("push", tag, how))
       /\ IF how = "raise"
          THEN dpc' = "done" /\ deploy_result' = Raise("Exception")
          ELSE dpc' = "probe" /\ UNCHANGED deploy_result
       /\ IF how = "ok"
          THEN LET c == tag_components(tag)
                   k == <<c.domain, c.repository>>
               IN repositories' =
                    IF k \in DOMAIN repositories
                    THEN [repositories EXCEPT ![k] = @ \cup {c.version}]
                    ELSE repositories @@ (k :> {c.version})
          ELSE UNCHANGED repositories
  /\ UNCHANGED <<deploy_args, options, registry, version, tag, docker_config>>
  /\ UNCHANGED <<repoVars, headVars, tagVars, probeVars, fillVars>>

\* The mutant of probe_exits: the test of dry inverted.
probe_exits_dry(found, dry) == ~found /\ dry

\* Lines 246-249: the run exits where the image is not found, unless dry.
probe_exits(found, dry) == ~found /\ ~dry

\* Lines 246-249: docker_image_exists(tag), and the exit on no image.
DeployProbe ==
  /\ dpc = "probe"
  /\ \E accepted \in BOOLEAN :
       LET r == docker_image_exists(tag, docker_config, repositories, accepted)
           found == r.result.value = PyBool(TRUE)
       IN /\ p_tag' = tag
          /\ session' = r.session
          /\ exists_result' = r.result
          /\ trace' = Append(trace,
               Step("probe", tag,
                    IF r.result.kind = "raise" THEN "raise" ELSE r.result.value[1]))
          /\ IF r.result.kind = "raise"
             THEN dpc' = "done" /\ deploy_result' = r.result
             ELSE IF probe_exits(found, deploy_args.dry)
             THEN dpc' = "done" /\ deploy_result' = Exit("Image not found")
             ELSE dpc' = "info" /\ UNCHANGED deploy_result
  /\ UNCHANGED <<deploy_args, options, registry, version, tag, ppc>>
  /\ UNCHANGED <<repoVars, headVars, tagVars, worldVars, fillVars>>

\* Line 251: kube.info()
DeployInfo ==
  /\ dpc = "info"
  /\ External("info", "dry")

\* Lines 253-255: a dry run ends here.
DeployDry ==
  /\ dpc = "dry" /\ deploy_args.dry
  /\ dpc' = "done"
  /\ deploy_result' = Return(None)
  /\ UNCHANGED <<deploy_args, options, registry, version, tag, trace>>
  /\ UNCHANGED <<repoVars, headVars, tagVars, worldVars, probeVars, fillVars>>

\* Line 257: kube.deploy(tag, environment)
DeployKube ==
  /\ dpc = "dry" /\ ~deploy_args.dry
  /\ \E ok \in BOOLEAN :
       /\ trace' = Append(trace, Step("deploy", tag, IF ok THEN "ok" ELSE "raise"))
       /\ deploy_result' = IF ok THEN Return(None) ELSE Raise("Exception")
  /\ dpc' = "done"
  /\ UNCHANGED <<deploy_args, options, registry, version, tag>>
  /\ UNCHANGED <<repoVars, headVars, tagVars, worldVars, probeVars, fillVars>>

\* ------------------------------------------------------- specifications
\* A call of head_of on any working copy, with any arguments.
InitResolve ==
  /\ RepoInit
  /\ \E br \in {None} \cup BranchNames, loc \in BOOLEAN :
       /\ head_args = [branch |-> br, local |-> loc]
       /\ branch = br
  /\ pc = "branch" /\ remote_idx = 0 /\ remote_refs = <<>>
  /\ head_result = NoResult
  /\ fetched = <<>> /\ enumerated = {} /\ selected = {}
  /\ TagIdle /\ WorldIdle /\ ProbeIdle /\ FillIdle /\ DeployIdle

NextResolve ==
  \/ HeadOfBranch
  \/ HeadOfLocal
  \/ HeadOfFetchFails
  \/ HeadOfRemote
  \/ HeadOfCheckFound
  \/ HeadOfCompare
  \/ HeadOfReturn

SpecResolve == InitResolve /\ [][NextResolve]_vars

\* make_tag, then tag_components on its result.
InitTag ==
  /\ TagInit
  /\ RepoIdle /\ HeadIdle /\ WorldIdle /\ ProbeIdle /\ FillIdle /\ DeployIdle

NextTag == MakeTag \/ TagComponents

SpecTag == InitTag /\ [][NextTag]_vars

\* A call of docker_image_exists.
InitProbe ==
  /\ ProbeInit
  /\ RepoIdle /\ HeadIdle /\ TagIdle /\ FillIdle /\ DeployIdle

NextProbe == DockerImageExists

SpecProbe == InitProbe /\ [][NextProbe]_vars

\* A call of fill_deployment_definition.
InitFill ==
  /\ FillInit
  /\ RepoIdle /\ HeadIdle /\ TagIdle /\ WorldIdle /\ ProbeIdle /\ DeployIdle

NextFill == FillDeploymentDefinition

SpecFill == InitFill /\ [][NextFill]_vars

\* A run of the deploy command.
InitDeploy ==
  /\ DeployInit
  /\ HeadIdle /\ TagIdle /\ ProbeIdle /\ FillIdle

NextDeploy ==
  \/ DeployOptions
  \/ DeployVersion
  \/ HeadOfBranch
  \/ HeadOfLocal
  \/ HeadOfFetchFails
  \/ HeadOfRemote
  \/ HeadOfCheckFound
  \/ HeadOfCompare
  \/ HeadOfReturn
  \/ DeployHeadOfDone
  \/ DeployMakeTag
  \/ DeployDownload
  \/ DeployBuild
  \/ DeployPush
  \/ DeployProbe
  \/ DeployInfo
  \/ DeployDry
  \/ DeployKube

SpecDeploy == InitDeploy /\ [][NextDeploy]_vars

\* ---------------------------------------------------------------- claims
\* head_of was called with a branch and local = False.
BranchKnown == head_args.branch # None /\ ~head_args.local
\* head_of ended and no fetch raised: every remote was enumerated.
ResolveEnded == pc = "done" /\ head_result.kind # "raise"
\* The full commit IDs of the refs the enumeration selected.
SelectedCommits == {refs[p[2]] : p \in selected}
\* The number of ":" in a text.
Colons(text) == Cardinality({i \in 1..Len(text) : text[i] = ":"})

\* C1: with a branch given and local = False, when two or more remotes hold
\* a ref named '<remote>/<branch>' and all of them are at one commit,
\* head_of returns the short form of that commit and does not exit.
C1_AgreeingRemotesResolve ==
  (BranchKnown /\ ResolveEnded /\ Cardinality(selected) >= 2
     /\ Cardinality(SelectedCommits) = 1)
    => \E c \in SelectedCommits : head_result = Return(rev_parse_short(c))

\* C2: with a branch given and local = False, when two or more selected
\* refs are at more than one distinct commit, head_of exits with the
\* different-commit-IDs error and returns no commit ID.
C2_DisagreeingRemotesExit ==
  (BranchKnown /\ Cardinality(selected) >= 2 /\ Cardinality(SelectedCommits) > 1)
    => /\ head_result.kind # "return"
       /\ ResolveEnded => head_result = Exit("different commit IDs")

\* head_of ended on two selected refs at different commits.
C2_Witness ==
  /\ BranchKnown /\ ResolveEnded
  /\ Cardinality(selected) >= 2 /\ Cardinality(SelectedCommits) > 1
  /\ head_result = Exit("different commit IDs")

\* C3: with local = True head_of returns the short form of the checked-out
\* commit for every branch argument and every state of the working copy,
\* and fetches and reads no remote.
C3_LocalAlwaysResolves ==
  (pc = "done" /\ head_args.local)
    => /\ head_result = Return(rev_parse_short(head_commit))
       /\ fetched = <<>> /\ enumerated = {}

\* C4: with a branch given and local = False, a ref is selected under a
\* remote exactly when its name is '<remote>/<branch>'; and where no ref of
\* any remote is selected, head_of exits with the no-tracking-branch error
\* once every remote was enumerated, and returns nothing.
C4_SelectionAndNoTracking ==
  BranchKnown =>
    /\ \A p \in enumerated :
         p \in selected <=> p[2] = p[1] \o <<"/">> \o head_args.branch
    /\ selected \subseteq enumerated
    /\ {remote_refs[i] : i \in 1..Len(remote_refs)} = {p[2] : p \in selected}
    /\ (ResolveEnded /\ selected = {})
         => head_result = Exit("no remote tracking branch")
    /\ head_result = Exit("no remote tracking branch")
         => selected = {} /\ fetched = remotes

\* head_of exited for want of a tracking branch after it enumerated refs of
\* two remotes, none of them named '<remote>/<branch>'.
C4_Witness ==
  /\ BranchKnown /\ pc = "done"
  /\ head_result = Exit("no remote tracking branch")
  /\ Len(fetched) >= 2
  /\ Cardinality(enumerated) >= 2

\* C5: for every registry without "/" and every name without ":", and any
\* version, tag_components(make_tag(registry, name, version)) succeeds and
\* gives back exactly (registry, name, version).
C5_RoundTrip ==
  (tpc = "done" /\ Find(t_in.registry, "/") = 0 /\ Find(t_in.name, ":") = 0)
    => /\ t_out.ok
       /\ t_out.domain = t_in.registry
       /\ t_out.repository = t_in.name
       /\ t_out.version = t_in.version

\* A round trip done on a registry with ":", a name with "/" and a version
\* with ":" and "/".
C5_Witness ==
  /\ tpc = "done"
  /\ Find(t_in.registry, "/") = 0 /\ Find(t_in.registry, ":") # 0
  /\ Find(t_in.name, ":") = 0 /\ Find(t_in.name, "/") # 0
  /\ Find(t_in.version, ":") # 0 /\ Find(t_in.version, "/") # 0
  /\ t_out.ok

\* docker_image_exists ended, and on its way it decoded the credential text
\* stored for the tag's domain.
Decoded ==
  /\ ppc = "done"
  /\ docker_config.kind = "ok"
  /\ tag_components(p_tag).ok
  /\ tag_components(p_tag).domain \in DOMAIN docker_config.auths
  /\ docker_config.auths[tag_components(p_tag).domain].valid
DecodedText == docker_config.auths[tag_components(p_tag).domain].text

\* C6 as claimed: a decoded credential text that does not hold exactly one
\* ":" (none, or two or more) makes docker_image_exists fail, and no
\* registry session is opened.
C6_ExactlyOneSeparator ==
  (Decoded /\ Colons(DecodedText) # 1)
    => exists_result = Raise("ValueError") /\ session = NoSession

\* C6 as amended: a decoded credential text without ":" makes
\* docker_image_exists fail with no session opened; a text with one ":" or
\* more opens a session whose username is the text before the first ":" and
\* whose password is all that follows it.
C6_NoSeparatorFails ==
  Decoded =>
    /\ Colons(DecodedText) = 0
         => exists_result = Raise("ValueError") /\ session = NoSession
    /\ Colons(DecodedText) >= 1
         => /\ session # NoSession
            /\ DecodedText = session.username \o <<":">> \o session.password
            /\ Colons(session.username) = 0

\* A session opened with a password that holds a ":".
C6_Witness ==
  /\ Decoded /\ Colons(DecodedText) >= 2
  /\ session # NoSession /\ Colons(session.password) >= 1

\* C7: docker_image_exists returns True exactly when the tag's version is
\* among the tags of the tag's repository in the registry of the tag's
\* domain, returns False without raising when the repository is there and
\* lacks the version, and logs in with the credentials stored under the
\* tag's own domain.
C7_ExistsIsMembership ==
  ppc = "done" =>
    LET c == tag_components(p_tag)
        k == <<c.domain, c.repository>>
    IN /\ exists_result.kind = "return"
            => /\ c.ok /\ k \in DOMAIN repositories
               /\ exists_result.value = PyBool(c.version \in repositories[k])
       /\ session # NoSession
            => /\ c.ok /\ docker_config.kind = "ok"
               /\ c.domain \in DOMAIN docker_config.auths
               /\ docker_config.auths[c.domain].valid
               /\ docker_config.auths[c.domain].text =
                    session.username \o <<":">> \o session.password
               /\ session.host = <<"h","t","t","p","s",":","/","/">> \o c.domain
       /\ (session # NoSession /\ session.accepted /\ k \in DOMAIN repositories)
            => exists_result = Return(PyBool(c.version \in repositories[k]))

\* docker_image_exists returned False for a repository that lacks the
\* version, with credentials stored for two domains.
C7_Witness ==
  /\ ppc = "done"
  /\ exists_result = Return(PyBool(FALSE))
  /\ Cardinality(DOMAIN docker_config.auths) = 2
  /\ session.username # <<>>

\* C8: on a manifest with one container or more,
\* fill_deployment_definition sets the first container's image to the tag,
\* the name and the 'name' label to the deployment name and the history
\* limit to 5, leaves the other containers, their number and order and the
\* other labels as they were, and returns the object it was passed.
C8_FillFirstContainer ==
  (fpc = "done" /\ f_before.containers # <<>>)
    => LET m == heap[f_deployment]
       IN /\ fill_result = [kind |-> "return", ref |-> f_deployment]
          /\ DOMAIN heap = {f_deployment}
          /\ m.containers[1].image = f_tag
          /\ m.containers[1].name = f_before.containers[1].name
          /\ Len(m.containers) = Len(f_before.containers)
          /\ \A i \in 2..Len(m.containers) : m.containers[i] = f_before.containers[i]
          /\ m.name = deployment_name
          /\ m.revisionHistoryLimit = 5
          /\ DOMAIN m.labels = DOMAIN f_before.labels \cup {"name"}
          /\ m.labels["name"] = deployment_name
          /\ \A k \in DOMAIN f_before.labels \ {"name"} :
               m.labels[k] = f_before.labels[k]

\* A call on two containers with other images than the tag and a label
\* other than 'name'.
C8_Witness ==
  /\ fpc = "done"
  /\ Len(f_before.containers) >= 2
  /\ f_before.containers[1].image # f_tag
  /\ f_before.containers[2].image # f_tag
  /\ "app" \in DOMAIN f_before.labels
  /\ fill_result.kind = "return"

\* C9 as claimed: on a manifest without containers
\* fill_deployment_definition fails and leaves the manifest as it was.
C9_EmptyLeavesManifest ==
  (fpc = "done" /\ f_before.containers = <<>>)
    => /\ fill_result.kind = "raise"
       /\ heap[f_deployment] = f_before

\* C9 as amended: on a manifest without containers
\* fill_deployment_definition fails after it has set the name, the 'name'
\* label and the history limit; the container list and the other labels
\* are as they were.
C9_EmptyFailsAfterNaming ==
  (fpc = "done" /\ f_before.containers = <<>>)
    => LET m == heap[f_deployment]
       IN /\ fill_result.kind = "raise"
          /\ m.containers = <<>>
          /\ m.name = deployment_name
          /\ m.revisionHistoryLimit = 5
          /\ DOMAIN m.labels = DOMAIN f_before.labels \cup {"name"}
          /\ m.labels["name"] = deployment_name
          /\ \A k \in DOMAIN f_before.labels \ {"name"} :
               m.labels[k] = f_before.labels[k]

\* A failed call on a manifest that had another name, no 'name' label and
\* another history limit.
C9_Witness ==
  /\ fpc = "done"
  /\ f_before.containers = <<>>
  /\ f_before.name # deployment_name
  /\ "name" \notin DOMAIN f_before.labels
  /\ f_before.revisionHistoryLimit # 5
  /\ fill_result.kind = "raise"

\* The place of a step in the order of a run.
StepRank(op) ==
  CASE op = "download" -> 1 [] op = "build" -> 2 [] op = "push" -> 3
    [] op = "probe" -> 4 [] op = "info" -> 5 [] op = "deploy" -> 6

\* C10: in a run of deploy the steps come in the order build, push, probe,
\* deploy, each once at most; kube.deploy runs only with dry unset and
\* after the probe of the same tag returned True; a dry run takes no build,
\* push or deploy step; build and push are taken only with local set and
\* dry unset; and a probe that returns False with dry unset ends the run
\* with an exit before any call of kube.
C10_DeployOrder ==
  /\ \A i, j \in 1..Len(trace) :
       i < j => StepRank(trace[i].op) < StepRank(trace[j].op)
  /\ \A i \in 1..Len(trace) :
       /\ trace[i].op = "deploy"
            => /\ ~deploy_args.dry
               /\ \E j \in 1..(i-1) : trace[j] = Step("probe", trace[i].tag, "True")
       /\ trace[i].op \in {"build", "push", "deploy"} => ~deploy_args.dry
       /\ trace[i].op \in {"build", "push"} => deploy_args.local
       /\ trace[i].op = "push"
            => i > 1 /\ trace[i-1] = Step("build", trace[i].tag, "ok")
       /\ (trace[i].op = "probe" /\ trace[i].result = "False" /\ ~deploy_args.dry)
            => /\ i = Len(trace)
               /\ dpc = "done"
               /\ deploy_result = Exit("Image not found")

\* A run with local set that built, pushed, probed and deployed.
C10_Witness ==
  /\ dpc = "done"
  /\ \E i \in 1..Len(trace) : trace[i].op = "build"
  /\ \E i \in 1..Len(trace) : trace[i].op = "push"
  /\ \E i \in 1..Len(trace) : trace[i] = Step("deploy", tag, "ok")
====
